---------------------------- MODULE Spec2Model ----------------------------
(***************************************************************************)
(* Model of src/main.py: the Rio Grande due-diligence demo backend.        *)
(*                                                                         *)
(* POST /generate-report binds the body to GenerateReportRequest, parses   *)
(* the GeoJSON geometry with shapely's shape(), scores it against the two  *)
(* fixed hazard boxes, averages the two pillar scores and assembles the    *)
(* response with a uuid4 report id and two placeholder URLs.               *)
(*                                                                         *)
(* Numbers.  Coordinates are kept in half degrees (every coordinate of the *)
(* two zones is a multiple of 0.5), so that a vertex is a pair of integers.*)
(* Areas, fractions and scores are exact rationals <<n, d>> in lowest      *)
(* terms with d > 0; an area in square degrees is the shoelace sum of the  *)
(* half-degree ring divided by 8.  Floating-point rounding is not          *)
(* modelled.                                                               *)
(***************************************************************************)
EXTENDS Integers, Sequences, FiniteSets, TLC

VARIABLES
    pc,         \* pc[r]: where request r stands in generate_report
    payload,    \* payload[r]: the request body (GenerateReportRequest)
    geom,       \* geom[r]: the shapely geometry shape() returned
    flood,      \* flood[r]: (flood_score, flood_details)
    wildfire,   \* wildfire[r]: (wildfire_score, wildfire_details)
    response,   \* response[r]: the GenerateReportResponse returned
    error,      \* error[r]: the exception that ended the request
    agg         \* a call of calculate_overall_score on its own: input, result

vars == <<pc, payload, geom, flood, wildfire, response, error, agg>>

None == "None"

-----------------------------------------------------------------------------
(* Bounds of the model.                                                    *)

\* number of requests in flight at once (specification Spec)
MaxRequests == 2
\* the parcels of SpecWide are the boxes of the half-degree grid that
\* reaches Margin steps beyond the two zones
Margin == 1
\* longest pillar list handed to calculate_overall_score (SpecAggregate)
MaxPillars == 3

-----------------------------------------------------------------------------
(* Exact rational arithmetic standing for Python's float arithmetic.       *)

Abs(n) == IF n < 0 THEN -n ELSE n

RECURSIVE GCD(_, _)
GCD(a, b) == IF b = 0 THEN a ELSE GCD(b, a % b)

\* the rational n/d (d # 0) in lowest terms with a positive denominator
Rat(n, d) ==
    LET s == IF d < 0 THEN -1 ELSE 1
        g == GCD(Abs(n), Abs(d))
    IN  <<(s * n) \div g, (s * d) \div g>>

Zero == Rat(0, 1)
RatAdd(a, b) == Rat(a[1] * b[2] + b[1] * a[2], a[2] * b[2])
RatMul(a, b) == Rat(a[1] * b[1], a[2] * b[2])
RatDiv(a, b) == Rat(a[1] * b[2], a[2] * b[1])
RatLE(a, b) == a[1] * b[2] <= b[1] * a[2]
RatLT(a, b) == a[1] * b[2] < b[1] * a[2]

RECURSIVE RatSum(_)
RatSum(s) == IF s = <<>> THEN Zero ELSE RatAdd(Head(s), RatSum(Tail(s)))

-----------------------------------------------------------------------------
(* Planar geometry: what shapely computes for .area and .intersection.     *)
(* A ring is the sequence of its vertices <<x, y>>, not closed.            *)

Next1(ring, i) == IF i = Len(ring) THEN 1 ELSE i + 1

\* (a - o) x (b - o)
Cross(o, a, b) == (a[1] - o[1]) * (b[2] - o[2]) - (a[2] - o[2]) * (b[1] - o[1])

RECURSIVE ShoelaceFrom(_, _)
ShoelaceFrom(ring, i) ==
    IF i > Len(ring) THEN 0
    ELSE LET p == ring[i]
             q == ring[Next1(ring, i)]
         IN  p[1] * q[2] - q[1] * p[2] + ShoelaceFrom(ring, i + 1)

\* twice the area enclosed by the ring, in half-degree units
Shoelace2(ring) == Abs(ShoelaceFrom(ring, 1))

\* the segments a-b and c-d cross at a point interior to both
ProperCross(a, b, c, d) ==
    /\ Cross(a, b, c) * Cross(a, b, d) < 0
    /\ Cross(c, d, a) * Cross(c, d, b) < 0

\* the point where the lines a-b and c-d meet (the inputs of the model
\* have edges of slope 0, 1, -1 or vertical: the divisions are exact)
CrossPoint(a, b, c, d) ==
    LET n == Cross(c, d, a)
        m == Cross(c, d, a) - Cross(c, d, b)
    IN  <<a[1] + ((b[1] - a[1]) * n) \div m, a[2] + ((b[2] - a[2]) * n) \div m>>

\* a ring none of whose edges properly crosses another (is_simple)
IsSimpleRing(ring) ==
    \A i, j \in 1..Len(ring) :
        i < j => ~ProperCross(ring[i], ring[Next1(ring, i)],
                              ring[j], ring[Next1(ring, j)])

\* the faces a ring encloses once its edges are noded: a four-vertex ring
\* whose opposite edges cross (a bow tie) encloses two triangles
Faces(ring) ==
    IF Len(ring) = 4 /\ ProperCross(ring[1], ring[2], ring[3], ring[4])
    THEN LET x == CrossPoint(ring[1], ring[2], ring[3], ring[4])
         IN  <<<<x, ring[2], ring[3]>>, <<x, ring[4], ring[1]>>>>
    ELSE IF Len(ring) = 4 /\ ProperCross(ring[2], ring[3], ring[4], ring[1])
    THEN LET x == CrossPoint(ring[2], ring[3], ring[4], ring[1])
         IN  <<<<x, ring[3], ring[4]>>, <<x, ring[1], ring[2]>>>>
    ELSE <<ring>>

\* the half plane of one side of an axis-parallel box
Inside(p, e) ==
    LET v == IF e.axis = "x" THEN p[1] ELSE p[2]
    IN  IF e.keep = "ge" THEN v >= e.c ELSE v <= e.c

\* where the segment p-q meets the line of side e
Cut(p, q, e) ==
    IF e.axis = "x"
    THEN <<e.c, p[2] + ((q[2] - p[2]) * (e.c - p[1])) \div (q[1] - p[1])>>
    ELSE <<p[1] + ((q[1] - p[1]) * (e.c - p[2])) \div (q[2] - p[2]), e.c>>

RECURSIVE ClipFrom(_, _, _)
ClipFrom(ring, e, i) ==
    IF i > Len(ring) THEN <<>>
    ELSE LET p == ring[i]
             q == ring[Next1(ring, i)]
             out == IF Inside(q, e)
                    THEN (IF Inside(p, e) THEN <<q>> ELSE <<Cut(p, q, e), q>>)
                    ELSE (IF Inside(p, e) THEN <<Cut(p, q, e)>> ELSE <<>>)
         IN  out \o ClipFrom(ring, e, i + 1)

ClipBy(ring, e) == ClipFrom(ring, e, 1)

RECURSIVE MinOf(_, _)
MinOf(ring, k) ==
    IF Len(ring) = 1 THEN ring[1][k]
    ELSE LET m == MinOf(Tail(ring), k)
         IN  IF ring[1][k] < m THEN ring[1][k] ELSE m

RECURSIVE MaxOf(_, _)
MaxOf(ring, k) ==
    IF Len(ring) = 1 THEN ring[1][k]
    ELSE LET m == MaxOf(Tail(ring), k)
         IN  IF ring[1][k] > m THEN ring[1][k] ELSE m

\* a convex ring clipped to the axis-parallel box `zone`
ClipToBox(ring, zone) ==
    ClipBy(ClipBy(ClipBy(ClipBy(ring,
        [axis |-> "x", keep |-> "ge", c |-> MinOf(zone, 1)]),
        [axis |-> "x", keep |-> "le", c |-> MaxOf(zone, 1)]),
        [axis |-> "y", keep |-> "ge", c |-> MinOf(zone, 2)]),
        [axis |-> "y", keep |-> "le", c |-> MaxOf(zone, 2)])

RECURSIVE SumOver(_, _)
\* the sum of Shoelace2 over the rings of s, each clipped to zone
SumOver(s, zone) ==
    IF s = <<>> THEN 0
    ELSE Shoelace2(ClipToBox(Head(s), zone)) + SumOver(Tail(s), zone)

RECURSIVE AllFaces(_)
AllFaces(rings) ==
    IF rings = <<>> THEN <<>> ELSE Faces(Head(rings)) \o AllFaces(Tail(rings))

RECURSIVE SumShoelace(_)
SumShoelace(rings) ==
    IF rings = <<>> THEN 0 ELSE Shoelace2(Head(rings)) + SumShoelace(Tail(rings))

Polygonal(g) == g.geom_type \in {"Polygon", "MultiPolygon"}

\* geom.area, in square degrees: points and lines have none
area(g) == IF Polygonal(g) THEN Rat(SumShoelace(g.rings), 8) ELSE Zero

\* mutant: the area of the parcel, not of its part inside the zone
intersection_area_unclipped(g, zone) == area(g)

\* geom.intersection(zone).area, in square degrees
intersection_area(g, zone) ==
    IF Polygonal(g) THEN Rat(SumOver(AllFaces(g.rings), zone), 8) ELSE Zero

\* no ring of the geometry crosses itself; GEOS gives no guarantee for an
\* overlay of a geometry one of whose rings does
no_self_crossing(g) == \A i \in 1..Len(g.rings) : IsSimpleRing(g.rings[i])


-----------------------------------------------------------------------------
(* Request bodies.  A GeoJSON geometry is [type, coordinates]; coordinates *)
(* is the sequence of the geometry's point lists: the one position of a    *)
(* Point, the positions of a LineString, the exterior ring of a Polygon,   *)
(* the exterior rings of the polygons of a MultiPolygon.  Holes are not    *)
(* modelled.  A body without the key "geometry" is a record without the    *)
(* field.                                                                  *)

Box(x1, y1, x2, y2) == <<<<x1, y1>>, <<x1, y2>>, <<x2, y2>>, <<x2, y1>>>>

\* the bow tie whose edges cross at (x + p, y + p): two triangles of legs
\* 2p and 2q, areas p*p and q*q
BowTie(x, y, p, q) ==
    <<<<x, y>>, <<x + p + q, y + p + q>>, <<x + p + q, y + p - q>>, <<x, y + 2 * p>>>>

Geometry(t, c) == [type |-> t, coordinates |-> c]

\* the rectangle (-106.5,34.5),(-106.5,36.5),(-104.5,36.5),(-104.5,34.5)
FloodZoneParcel == Geometry("Polygon", <<Box(-213, 69, -209, 73)>>)
\* the rectangle (0,0),(0,1),(1,1),(1,0)
UnitSquare == Geometry("Polygon", <<Box(0, 0, 2, 2)>>)

GridX == (-214 - Margin)..(-209 + Margin)
GridY == (69 - Margin)..(74 + Margin)

\* every axis-parallel box of the grid, the zero-width and zero-height
\* ones included
GridBoxes ==
    {Geometry("Polygon", <<Box(x1, y1, x2, y2)>>) :
        <<x1, x2>> \in {w \in GridX \X GridX : w[1] <= w[2]},
        <<y1, y2>> \in {w \in GridY \X GridY : w[1] <= w[2]}}

\* right triangles with legs along the axes and a diagonal of slope 1
GridTriangles ==
    {Geometry("Polygon", <<<<<<x, y>>, <<x, y + k>>, <<x + k, y + k>>>>>>) :
        x \in {-215, -213, -211}, y \in {68, 70, 72}, k \in {1, 2, 4}}

BowTies ==
    {Geometry("Polygon", <<BowTie(x, y, p, q)>>) :
        x \in {-213, -211, 0}, y \in {69, 72}, p \in {1, 2}, q \in {1, 2}}

OtherGeometries ==
    { UnitSquare,
      Geometry("Polygon", <<>>),
      Geometry("Polygon", <<<<<<-212, 70>>, <<-211, 71>>, <<-210, 72>>>>>>),
      Geometry("Polygon", <<<<<<0, 0>>, <<1, 1>>, <<2, 2>>>>>>),
      Geometry("Polygon", <<<<<<-212, 70>>, <<-211, 71>>>>>>),
      Geometry("MultiPolygon", <<Box(-212, 70, -211, 71), Box(0, 0, 2, 2)>>),
      Geometry("MultiPolygon", <<Box(-213, 69, -211, 71), Box(-216, 60, -214, 62)>>),
      Geometry("Point", <<<<<<-212, 71>>>>>>),
      Geometry("Point", <<<<<<0, 0>>>>>>),
      Geometry("LineString", <<<<<<-212, 70>>, <<-211, 72>>>>>>),
      Geometry("LineString", <<<<<<-212, 70>>>>>>),
      Geometry("NotAShape", <<>>),
      Geometry(None, <<Box(-213, 69, -209, 73)>>) }

WideGeometries == GridBoxes \cup GridTriangles \cup BowTies \cup OtherGeometries

SampleGeometries ==
    { Geometry("Polygon", <<Box(-215, 68, -211, 71)>>),
      Geometry("Polygon", <<BowTie(-213, 69, 2, 1)>>),
      Geometry("Point", <<<<<<-212, 71>>>>>>),
      Geometry("NotAShape", <<>>) }

ProjectNames == {None, "Rio Grande Demo"}

\* the bodies a client may post
Payloads(geometries) ==
    {[geometry |-> g, project_name |-> n] : g \in geometries, n \in ProjectNames}
        \cup {[project_name |-> n] : n \in ProjectNames}

\* values uuid.uuid4() may return (samples of the 2^122)
UUIDs == {"3f2b8c1e-7a4d-4e9b-9c55-0d6e2a1b7f10", "a81d04c7-5b1e-4f63-8e0a-6c2f9d3b4e21"}

\* values dt.datetime.utcnow().isoformat() may return
Clock == {"2024-05-01T12:00:00.000001"}

-----------------------------------------------------------------------------
(* shape(payload.geometry): shapely.geometry.shape.                        *)

ShapeTypes == {"Point", "LineString", "Polygon", "MultiPolygon"}

\* shape raises: the type tag is missing or unknown, or a point list is too
\* short for its type
shape_raises(g) ==
    \/ g.type \notin ShapeTypes
    \/ g.type = "Point" /\ g.coordinates # <<>>
         /\ (Len(g.coordinates) # 1 \/ Len(g.coordinates[1]) # 1)
    \/ g.type = "LineString" /\ g.coordinates # <<>>
         /\ (Len(g.coordinates) # 1 \/ Len(g.coordinates[1]) < 2)
    \/ g.type = "Polygon"
         /\ \E i \in 1..Len(g.coordinates) : Len(g.coordinates[i]) < 3
    \/ g.type = "MultiPolygon"
         /\ \E i \in 1..Len(g.coordinates) : Len(g.coordinates[i]) < 3

\* the geometry shape returns; empty coordinates give the empty geometry
shape(g) == [geom_type |-> g.type, rings |-> g.coordinates]

-----------------------------------------------------------------------------
(* Mock geospatial pillar logic.                                           *)

flood_zone == Box(-213, 69, -209, 73)

wildfire_zone == Box(-214, 70, -210, 74)

Hundred == Rat(100, 1)

\* mutant: the ratio taken the wrong way round
fraction_inverted(inter_area, parcel_area) ==
    IF RatLT(Zero, parcel_area) /\ RatLT(Zero, inter_area)
    THEN RatDiv(parcel_area, inter_area) ELSE Zero

\* mutant: a parcel without area counted as wholly inside the zone
fraction_default_one(inter_area, parcel_area) ==
    IF RatLT(Zero, parcel_area) THEN RatDiv(inter_area, parcel_area) ELSE Rat(1, 1)

fraction_of(inter_area, parcel_area) ==
    IF RatLT(Zero, parcel_area) THEN RatDiv(inter_area, parcel_area) ELSE Zero

compute_flood_risk(g) ==
    LET inter_area == intersection_area(g, flood_zone)
        parcel_area == area(g)
        fraction == fraction_of(inter_area, parcel_area)
        score == RatMul(fraction, Hundred)
        details == [intersection_area |-> inter_area,
                    parcel_area |-> parcel_area,
                    fraction_in_flood_zone |-> fraction]
    IN  [score |-> score, details |-> details]

\* mutant: the wildfire pillar scored against the flood box
compute_wildfire_risk_copy(g) ==
    LET r == compute_flood_risk(g)
    IN  [score |-> r.score,
         details |-> [intersection_area |-> r.details.intersection_area,
                      parcel_area |-> r.details.parcel_area,
                      fraction_in_wildfire_zone |-> r.details.fraction_in_flood_zone]]

compute_wildfire_risk(g) ==
    LET inter_area == intersection_area(g, wildfire_zone)
        parcel_area == area(g)
        fraction == fraction_of(inter_area, parcel_area)
        score == RatMul(fraction, Hundred)
        details == [intersection_area |-> inter_area,
                    parcel_area |-> parcel_area,
                    fraction_in_wildfire_zone |-> fraction]
    IN  [score |-> score, details |-> details]

PillarScore(name, result) ==
    [name |-> name, score |-> result.score, details |-> result.details]

Scores(pillars) == [i \in 1..Len(pillars) |-> pillars[i].score]

\* mutant: the sum divided by the two pillars of today, not by len(pillars)
calculate_overall_score_two(pillars) ==
    IF Len(pillars) = 0 THEN Zero
    ELSE RatDiv(RatSum(Scores(pillars)), Rat(2, 1))

calculate_overall_score(pillars) ==
    IF Len(pillars) = 0 THEN Zero
    ELSE RatDiv(RatSum(Scores(pillars)), Rat(Len(pillars), 1))

\* geom.intersection(zone) may raise a GEOSException (TopologyException)
\* for a geometry that is not valid: whether it does depends on the GEOS
\* the build links
intersection_may_raise(g) == Polygonal(g) /\ ~no_self_crossing(g)

-----------------------------------------------------------------------------
(* POST /generate-report, one action per step of the handler.              *)

Requests == DOMAIN pc

Fail(r, kind, at) ==
    /\ pc' = [pc EXCEPT ![r] = "failed"]
    /\ error' = [error EXCEPT ![r] = [kind |-> kind, at |-> at]]

\* a client posts a body
Submit(r, bodies) ==
    /\ pc[r] = "idle"
    /\ \E b \in bodies : payload' = [payload EXCEPT ![r] = b]
    /\ pc' = [pc EXCEPT ![r] = "validate"]
    /\ UNCHANGED <<geom, flood, wildfire, response, error, agg>>

\* the body is bound to GenerateReportRequest: geometry is a required Dict
Validate(r) ==
    /\ pc[r] = "validate"
    /\ IF "geometry" \in DOMAIN payload[r]
       THEN pc' = [pc EXCEPT ![r] = "parse"] /\ UNCHANGED error
       ELSE Fail(r, "RequestValidationError", "validate")
    /\ UNCHANGED <<payload, geom, flood, wildfire, response, agg>>

\* try: geom = shape(payload.geometry) except Exception: raise ValueError
Parse(r) ==
    /\ pc[r] = "parse"
    /\ IF shape_raises(payload[r].geometry)
       THEN Fail(r, "ValueError", "parse") /\ UNCHANGED geom
       ELSE /\ geom' = [geom EXCEPT ![r] = shape(payload[r].geometry)]
            /\ pc' = [pc EXCEPT ![r] = "flood"]
            /\ UNCHANGED error
    /\ UNCHANGED <<payload, flood, wildfire, response, agg>>

\* mutant: the parsed geometry kept in a variable the requests share
FloodRiskShared(r) ==
    /\ pc[r] = "flood"
    /\ \E o \in Requests :
          /\ pc[o] \in {"flood", "wildfire", "assemble", "done"}
          /\ flood' = [flood EXCEPT ![r] = compute_flood_risk(geom[o])]
    /\ pc' = [pc EXCEPT ![r] = "wildfire"]
    /\ UNCHANGED <<payload, geom, wildfire, response, error, agg>>

\* flood_score, flood_details = compute_flood_risk(geom)
FloodRisk(r) ==
    /\ pc[r] = "flood"
    /\ \/ /\ flood' = [flood EXCEPT ![r] = compute_flood_risk(geom[r])]
          /\ pc' = [pc EXCEPT ![r] = "wildfire"]
          /\ UNCHANGED error
       \/ /\ intersection_may_raise(geom[r])
          /\ Fail(r, "GEOSException", "flood")
          /\ UNCHANGED flood
    /\ UNCHANGED <<payload, geom, wildfire, response, agg>>

\* wildfire_score, wildfire_details = compute_wildfire_risk(geom)
WildfireRisk(r) ==
    /\ pc[r] = "wildfire"
    /\ \/ /\ wildfire' = [wildfire EXCEPT ![r] = compute_wildfire_risk(geom[r])]
          /\ pc' = [pc EXCEPT ![r] = "assemble"]
          /\ UNCHANGED error
       \/ /\ intersection_may_raise(geom[r])
          /\ Fail(r, "GEOSException", "wildfire")
          /\ UNCHANGED wildfire
    /\ UNCHANGED <<payload, geom, flood, response, agg>>

pdf_url_of(report_id) == "https://demo.example.com/reports/" \o report_id \o ".pdf"

\* mutant: the .pdf template pasted for the .kmz
kmz_url_pdf_ext(report_id) == "https://demo.example.com/reports/" \o report_id \o ".pdf"

kmz_url_of(report_id) == "https://demo.example.com/reports/" \o report_id \o ".kmz"

\* the GenerateReportResponse built from the two results, a uuid and a time
Report(flood_result, wildfire_result, report_id, now) ==
    LET pillars == <<PillarScore("Flood Risk", flood_result),
                     PillarScore("Wildfire Risk", wildfire_result)>>
        overall == calculate_overall_score(pillars)
    IN  [report_id |-> report_id,
         created_at |-> now \o "Z",
         overall_risk_score |-> overall,
         pillars |-> pillars,
         pdf_url |-> pdf_url_of(report_id),
         kmz_url |-> kmz_url_of(report_id)]

\* pillars, overall, report_id, created_at, the URLs and the return
Assemble(r) ==
    /\ pc[r] = "assemble"
    /\ \E u \in UUIDs, now \in Clock :
          response' = [response EXCEPT ![r] = Report(flood[r], wildfire[r], u, now)]
    /\ pc' = [pc EXCEPT ![r] = "done"]
    /\ UNCHANGED <<payload, geom, flood, wildfire, error, agg>>

\* calculate_overall_score called on the list agg.pillars
Aggregate ==
    /\ ~agg.done
    /\ agg' = [agg EXCEPT !.done = TRUE,
                          !.overall = calculate_overall_score(agg.pillars)]
    /\ UNCHANGED <<pc, payload, geom, flood, wildfire, response, error>>

-----------------------------------------------------------------------------
(* Specifications.                                                         *)

NoAggregate == [pillars |-> <<>>, done |-> TRUE, overall |-> Zero]

InitRequests(n) ==
    /\ pc = [r \in 1..n |-> "idle"]
    /\ payload = [r \in 1..n |-> None]
    /\ geom = [r \in 1..n |-> None]
    /\ flood = [r \in 1..n |-> None]
    /\ wildfire = [r \in 1..n |-> None]
    /\ response = [r \in 1..n |-> None]
    /\ error = [r \in 1..n |-> None]

\* MaxRequests requests in any interleaving, over a few geometries
Init == InitRequests(MaxRequests) /\ agg = NoAggregate

Next ==
    \/ \E r \in Requests : Submit(r, Payloads(SampleGeometries))
    \/ \E r \in Requests : Validate(r)
    \/ \E r \in Requests : Parse(r)
    \/ \E r \in Requests : FloodRisk(r)
    \/ \E r \in Requests : WildfireRisk(r)
    \/ \E r \in Requests : Assemble(r)

Spec == Init /\ [][Next]_vars

\* one request, over every geometry of the grid
InitWide == InitRequests(1) /\ agg = NoAggregate

NextWide ==
    \/ \E r \in Requests : Submit(r, Payloads(WideGeometries))
    \/ \E r \in Requests : Validate(r)
    \/ \E r \in Requests : Parse(r)
    \/ \E r \in Requests : FloodRisk(r)
    \/ \E r \in Requests : WildfireRisk(r)
    \/ \E r \in Requests : Assemble(r)

SpecWide == InitWide /\ [][NextWide]_vars

\* the pillars the scorers give for a few parcels
SamplePillars ==
    {PillarScore("Flood Risk", compute_flood_risk(shape(g))) :
        g \in {FloodZoneParcel, UnitSquare,
               Geometry("Polygon", <<Box(-215, 68, -211, 71)>>),
               Geometry("Polygon", <<Box(-214, 69, -211, 70)>>)}}

PillarLists == UNION {[1..n -> SamplePillars] : n \in 0..MaxPillars}

\* one request, and calculate_overall_score on its own over every short
\* pillar list
InitAggregate ==
    /\ InitRequests(1)
    /\ agg \in {[pillars |-> ps, done |-> FALSE, overall |-> Zero] : ps \in PillarLists}

NextAggregate ==
    \/ \E r \in Requests : Submit(r, Payloads(SampleGeometries))
    \/ \E r \in Requests : Validate(r)
    \/ \E r \in Requests : Parse(r)
    \/ \E r \in Requests : FloodRisk(r)
    \/ \E r \in Requests : WildfireRisk(r)
    \/ \E r \in Requests : Assemble(r)
    \/ Aggregate

SpecAggregate == InitAggregate /\ [][NextAggregate]_vars

-----------------------------------------------------------------------------
(* Notions the properties are stated with.  The two zones are written out  *)
(* again here, from the coordinates of the specification, in half degrees. *)

Done(r) == pc[r] = "done"

\* the request got past shape(): geom[r] is a geometry
Parsed(r) == pc[r] \in {"flood", "wildfire", "assemble", "done"}
                \/ (pc[r] = "failed" /\ error[r].at \in {"flood", "wildfire"})

FloodBox == [x1 |-> -213, y1 |-> 69, x2 |-> -209, y2 |-> 73]
WildfireBox == [x1 |-> -214, y1 |-> 70, x2 |-> -210, y2 |-> 74]

PointInBox(p, b) == b.x1 <= p[1] /\ p[1] <= b.x2 /\ b.y1 <= p[2] /\ p[2] <= b.y2

\* a polygon or multipolygon with at least one ring
IsParcel(g) == Polygonal(g) /\ g.rings # <<>>

\* every vertex of the parcel lies in the box
ParcelInside(g, b) ==
    \A i \in 1..Len(g.rings) : \A k \in 1..Len(g.rings[i]) : PointInBox(g.rings[i][k], b)

\* every ring of the parcel lies in a closed half plane that misses the
\* interior of the box
ParcelOutside(g, b) ==
    \A i \in 1..Len(g.rings) :
        LET ring == g.rings[i]
        IN  \/ \A k \in 1..Len(ring) : ring[k][1] <= b.x1
            \/ \A k \in 1..Len(ring) : ring[k][1] >= b.x2
            \/ \A k \in 1..Len(ring) : ring[k][2] <= b.y1
            \/ \A k \in 1..Len(ring) : ring[k][2] >= b.y2

DistinctVertices(ring) == Cardinality({ring[k] : k \in 1..Len(ring)})

\* the Polygon invariant of the data model: at least 3 distinct vertices
ThreeVertices(g) == \A i \in 1..Len(g.rings) : DistinctVertices(g.rings[i]) >= 3

FloodPillar(r) == response[r].pillars[1]
WildfirePillar(r) == response[r].pillars[2]

InRange(score) == RatLE(<<0, 1>>, score) /\ RatLE(score, <<100, 1>>)

-----------------------------------------------------------------------------
-----------------------------------------------------------------------------
(* C2: a geometry that is absent, malformed or not a Polygon or            *)
(* MultiPolygon never gets a report: its request fails.                    *)
C2_NonPolygonRejected ==
    \A r \in Requests :
        /\ pc[r] # "idle"
        /\ \/ "geometry" \notin DOMAIN payload[r]
           \/ payload[r].geometry.type \notin {"Polygon", "MultiPolygon"}
        => ~Done(r)

-----------------------------------------------------------------------------
-----------------------------------------------------------------------------
(* C4: for every parcel entirely outside both zones the report has Flood   *)
(* Risk score 0, Wildfire Risk score 0 and overall_risk_score 0; a parcel  *)
(* none of whose rings crosses itself does get its report.                 *)
C4_OutsideScoresZero ==
    \A r \in Requests :
        /\ Parsed(r) /\ IsParcel(geom[r])
        /\ ParcelOutside(geom[r], FloodBox) /\ ParcelOutside(geom[r], WildfireBox)
        => /\ no_self_crossing(geom[r]) => pc[r] # "failed"
           /\ Done(r) => /\ FloodPillar(r).score = <<0, 1>>
                         /\ WildfirePillar(r).score = <<0, 1>>
                         /\ response[r].overall_risk_score = <<0, 1>>

\* the report for the unit square (0,0),(0,1),(1,1),(1,0)
C4_Witness ==
    \E r \in Requests :
        /\ Done(r)
        /\ payload[r].geometry = Geometry("Polygon",
               <<<<<<0, 0>>, <<0, 2>>, <<2, 2>>, <<2, 0>>>>>>)
        /\ response[r].overall_risk_score = <<0, 1>>

-----------------------------------------------------------------------------
(* C5: a well-formed parcel of zero area raises no error and gets a report *)
(* in which both scores and both fractions are 0.                          *)
C5_ZeroAreaScoresZero ==
    \A r \in Requests :
        /\ Parsed(r) /\ Polygonal(geom[r]) /\ no_self_crossing(geom[r])
        /\ \A i \in 1..Len(geom[r].rings) : Shoelace2(geom[r].rings[i]) = 0
        => /\ pc[r] # "failed"
           /\ pc[r] \in {"wildfire", "assemble", "done"}
                => /\ flood[r].score = <<0, 1>>
                   /\ flood[r].details.fraction_in_flood_zone = <<0, 1>>
           /\ Done(r)
                => /\ FloodPillar(r).score = <<0, 1>>
                   /\ FloodPillar(r).details.fraction_in_flood_zone = <<0, 1>>
                   /\ WildfirePillar(r).score = <<0, 1>>
                   /\ WildfirePillar(r).details.fraction_in_wildfire_zone = <<0, 1>>

\* the report for a zero-area ring of three distinct vertices lying within
\* both zones
C5_Witness ==
    \E r \in Requests :
        /\ Done(r) /\ IsParcel(geom[r]) /\ ThreeVertices(geom[r])
        /\ ParcelInside(geom[r], FloodBox) /\ ParcelInside(geom[r], WildfireBox)
        /\ FloodPillar(r).details.parcel_area = <<0, 1>>
        /\ FloodPillar(r).score = <<0, 1>>

-----------------------------------------------------------------------------
(* C6: calculate_overall_score gives 0 for the empty list and, for a list  *)
(* of N >= 1 pillars, the number that times N is the sum of the scores;    *)
(* the overall_risk_score of a report is (Flood + Wildfire) / 2.           *)
C6_OverallIsMean ==
    /\ agg.done =>
          IF Len(agg.pillars) = 0 THEN agg.overall = <<0, 1>>
          ELSE RatMul(agg.overall, <<Len(agg.pillars), 1>>) = RatSum(Scores(agg.pillars))
    /\ \A r \in Requests :
          Done(r) =>
              RatAdd(response[r].overall_risk_score, response[r].overall_risk_score)
                  = RatAdd(FloodPillar(r).score, WildfirePillar(r).score)

\* a list of three pillars whose mean is no integer, averaged, and a report
\* whose two scores differ
C6_Witness ==
    /\ agg.done /\ Len(agg.pillars) = 3 /\ agg.overall[2] # 1
    /\ \E r \in Requests : Done(r) /\ FloodPillar(r).score # WildfirePillar(r).score

-----------------------------------------------------------------------------
(* C8: in every report pdf_url is the reports prefix, the report's own     *)
(* report_id and ".pdf", and kmz_url the same with ".kmz".                 *)
C8_UrlsEmbedReportId ==
    \A r \in Requests :
        Done(r) =>
            /\ response[r].pdf_url
                 = "https://demo.example.com/reports/" \o response[r].report_id \o ".pdf"
            /\ response[r].kmz_url
                 = "https://demo.example.com/reports/" \o response[r].report_id \o ".kmz"

\* two reports with different ids, each with its own URLs
C8_Witness ==
    \E r1, r2 \in Requests :
        /\ Done(r1) /\ Done(r2)
        /\ response[r1].report_id # response[r2].report_id
        /\ response[r1].pdf_url # response[r2].pdf_url

-----------------------------------------------------------------------------
(* C9: a request fails only before scoring begins: no request fails in     *)
(* compute_flood_risk or compute_wildfire_risk.                            *)
C9_FailsOnlyBeforeScoring ==
    \A r \in Requests :
        pc[r] = "failed" => error[r].at \in {"validate", "parse"}

-----------------------------------------------------------------------------
(* C10: in any interleaving, the pillars and the overall score of a report *)
(* are those the two scorers give for that request's own geometry, and two *)
(* requests with the same geometry get the same pillars and overall score, *)
(* whatever their project_name and whatever the other requests do.         *)
C10_ResultFunctionOfGeometry ==
    /\ \A r \in Requests :
          Done(r) =>
              LET own == shape(payload[r].geometry)
              IN  /\ FloodPillar(r).score = compute_flood_risk(own).score
                  /\ FloodPillar(r).details = compute_flood_risk(own).details
                  /\ WildfirePillar(r).score = compute_wildfire_risk(own).score
                  /\ WildfirePillar(r).details = compute_wildfire_risk(own).details
    /\ \A r1, r2 \in Requests :
          Done(r1) /\ Done(r2) /\ payload[r1].geometry = payload[r2].geometry
              => /\ response[r1].pillars = response[r2].pillars
                 /\ response[r1].overall_risk_score = response[r2].overall_risk_score

\* two reports for one geometry under different project names, with a
\* score that is not 0
C10_Witness ==
    \E r1, r2 \in Requests :
        /\ r1 # r2 /\ Done(r1) /\ Done(r2)
        /\ payload[r1].geometry = payload[r2].geometry
        /\ payload[r1].project_name # payload[r2].project_name
        /\ RatLT(<<0, 1>>, response[r1].overall_risk_score)

=============================================================================
